---- MODULE Spec2Model ----
(***************************************************************************)
(* a_duk: a terminal pet.  main() (src/src/main.rs) enables raw mode,      *)
(* installs a SIGINT handler, hides the cursor, loads the pet directory    *)
(* (src/src/pet.rs), registers two Lua host functions, calls the default   *)
(* state's Init handler and then runs the tick loop: render, update,       *)
(* poll, sleep.  Time is counted in whole milliseconds.                    *)
(***************************************************************************)
EXTENDS Integers, Sequences, FiniteSets, TLC

(***************************************************************************)
(* Bounds of the explored inputs.                                          *)
(***************************************************************************)
MaxFrames == 2
MaxDelay == 2
MaxTime == 4
MaxSleep == 2
MaxEntries == 3

(***************************************************************************)
(* Names.  NoFn is Lua's nil for a global; "ghost" is a name for which the *)
(* pet has no directory.                                                   *)
(***************************************************************************)
NoFn == "nil"
NoValue == "none"
NoFrame == <<>>
HandlerNames == {"Init", "Update", "Key_down", "Key_up"}
HostNames == {"get_current_anim", "set_current_anim"}
GlobalNames == HandlerNames \cup HostNames
AnimNames == {"idle", "blink", "wave"}
ScriptArgs == AnimNames \cup {"ghost"}

VARIABLES
    fs,                   \* the pet directory on disk (never written)
    pc,                   \* position of main
    raw_mode,             \* terminal raw mode enabled
    cursor_hidden,        \* terminal cursor hidden
    handler_set,          \* the ctrlc handler is installed
    running,              \* the AtomicBool shared with the ctrlc handler
    globals,              \* lua.globals(): name -> script that defined it
    pet,                  \* the loaded Pet, or NoPet
    current_state,
    current_anim,
    current_frame,
    clock,                \* Instant::now() if it were read
    now,
    last_render,
    last_update,
    current_anim_closure, \* the String moved into get_current_anim
    caller,               \* which handler call the interpreter is running
    got,                  \* value returned by the last get_current_anim call
    shown,                \* what this tick's render step printed:
                          \* animation, frame index, frame
    key_event,            \* the event this tick's poll read
    err                   \* how main ended

vars == <<fs, pc, raw_mode, cursor_hidden, handler_set, running, globals, pet,
          current_state, current_anim, current_frame, clock, now, last_render,
          last_update, current_anim_closure, caller, got, shown, key_event,
          err>>

termVars == <<raw_mode, cursor_hidden>>
cursorVars == <<current_anim, current_frame>>
timeVars == <<clock, now, last_render, last_update>>

(***************************************************************************)
(* The pet directories explored.  anim maps a directory name to the        *)
(* delay of its meta.toml and its file names in read_dir order; state is   *)
(* the sequence of state directories in read_dir order, each with its      *)
(* meta.toml, the set of globals its state.lua defines and the host        *)
(* functions its state.lua calls when it is executed.                      *)
(***************************************************************************)
\* File names of an animation directory: the characters before the last
\* dot and the extension after it.
DigitChars == <<"0", "1", "2", "3", "4", "5", "6", "7", "8", "9">>

TxtFile(stem) == [stem |-> stem, ext |-> "txt"]

MetaFile == [stem |-> <<"m", "e", "t", "a">>, ext |-> "toml"]

\* A directory with meta.toml and the frame files (k-1).txt down to 0.txt.
Listing(k) ==
    <<MetaFile>> \o [i \in 1..k |-> TxtFile(<<DigitChars[k - i + 1]>>)]

ScriptDefs ==
    { {}, {"Init"}, {"Update"}, {"Init", "Update"}, HandlerNames }

AnimDirs ==
    { [n \in D |-> IF n = "blink"
                   THEN [delay |-> 1, entries |-> Listing(nb)]
                   ELSE IF n = "wave"
                   THEN [delay |-> MaxDelay, entries |-> Listing(nw)]
                   ELSE [delay |-> di, entries |-> Listing(1)]] :
        D \in {{"blink", "wave"}, AnimNames},
        nb \in 0..MaxFrames, nw \in 1..MaxFrames, di \in {1} }

StateDir(name, a, d, defs) ==
    [name |-> name, animation |-> a, update_delay |-> d, defs |-> defs,
     calls |-> {}]

\* A state.lua whose first statement calls a host function.
CallingDir(dir, h) == [dir EXCEPT !.calls = {h}]

StateDirs ==
    { <<StateDir("idle", a, d, defs)>> :
        a \in {"blink", "wave", "ghost"}, d \in 1..MaxDelay,
        defs \in ScriptDefs }
    \cup
    { <<StateDir("nap", "blink", 1, {"Init", "Update"}),
        StateDir("idle", "blink", d, defs)>> :
        d \in {MaxDelay}, defs \in ScriptDefs }
    \cup
    { <<CallingDir(StateDir("idle", "blink", 1, {"Init", "Update"}), h)>> :
        h \in HostNames }

\* Animation directories whose frame files come in any order, with gaps and
\* with a number beyond u32.
FrameFileNames ==
    { MetaFile, TxtFile(<<"0">>), TxtFile(<<"2">>), TxtFile(<<"1", "0">>),
      TxtFile(<<"4", "2", "9", "4", "9", "6", "7", "2", "9", "6">>) }

Listings ==
    UNION { { l \in [1..k -> FrameFileNames] :
                \A i, j \in 1..k : l[i] = l[j] => i = j } :
            k \in 0..MaxEntries }

FrameDirs ==
    { [meta |-> [default_state |-> "blink", global_tick_delay |-> 1],
       anim |-> [n \in {"blink"} |-> [delay |-> 1, entries |-> l]],
       state |-> <<StateDir("blink", "blink", 1, {"Init", "Update"})>>] :
        l \in Listings }

\* The pet of the end-to-end scenario: ticks of 100 ms, state idle without
\* handlers updating every 5000 ms, animation blink of 3 frames 500 ms apart.
ScenarioDir ==
    [meta |-> [default_state |-> "idle", global_tick_delay |-> 100],
     anim |-> [n \in {"blink"} |-> [delay |-> 500, entries |-> Listing(3)]],
     state |-> <<StateDir("idle", "blink", 5000, {})>>]

PetDirs ==
    { [meta |-> [default_state |-> ds, global_tick_delay |-> 1],
       anim |-> ad, state |-> sd] :
        ds \in {"idle", "ghost"}, ad \in AnimDirs, sd \in StateDirs }
    \cup {ScenarioDir}

(***************************************************************************)
(* pet.rs                                                                  *)
(***************************************************************************)
Failure(kind) == [ok |-> FALSE, err |-> kind]

\* The decimal numerals that bound u32 and usize (64 bits).
U32Max == <<"4", "2", "9", "4", "9", "6", "7", "2", "9", "5">>

UsizeMax ==
    <<"1", "8", "4", "4", "6", "7", "4", "4", "0", "7",
      "3", "7", "0", "9", "5", "5", "1", "6", "1", "5">>

IsDigit(c) == \E i \in 1..10 : DigitChars[i] = c

DigitOf(c) == (CHOOSE i \in 1..10 : DigitChars[i] = c) - 1

\* from_str_radix accepts one leading plus sign.
Unsigned(s) == IF s # <<>> /\ Head(s) = "+" THEN Tail(s) ELSE s

RECURSIVE StripZeros(_)
StripZeros(d) ==
    IF Len(d) > 1 /\ Head(d) = "0" THEN StripZeros(Tail(d)) ELSE d

\* Order of two numerals without leading zeros.
NumLess(a, b) ==
    \/ Len(a) < Len(b)
    \/ /\ Len(a) = Len(b)
       /\ \E i \in 1..Len(a) :
            /\ DigitOf(a[i]) < DigitOf(b[i])
            /\ \A j \in 1..(i - 1) : a[j] = b[j]

\* str::parse for an unsigned type with the given maximum: Ok or Err.
ParseOk(s, max) ==
    /\ Unsigned(s) # <<>>
    /\ \A i \in 1..Len(Unsigned(s)) : IsDigit(Unsigned(s)[i])
    /\ ~NumLess(max, StripZeros(Unsigned(s)))

\* The number a successful parse returns, as a numeral.
ParseValue(s) == StripZeros(Unsigned(s))

\* pet.rs 79-86: the filter that selects the frame files.
IsFrameFile(entry) == entry.ext = "txt" /\ ParseOk(entry.stem, UsizeMax)

FrameFiles(entries) == SelectSeq(entries, IsFrameFile)

\* sort_by_key is stable: an element goes behind the elements whose key is
\* not greater than its own.
RECURSIVE InsertByKey(_, _)
InsertByKey(sorted, e) ==
    IF sorted = <<>> THEN <<e>>
    ELSE IF NumLess(ParseValue(e.stem), ParseValue(Head(sorted).stem))
    THEN <<e>> \o sorted
    ELSE <<Head(sorted)>> \o InsertByKey(Tail(sorted), e)

RECURSIVE SortByKey(_)
SortByKey(files) ==
    IF files = <<>> THEN <<>>
    ELSE InsertByKey(SortByKey(SubSeq(files, 1, Len(files) - 1)),
                     files[Len(files)])

\* pet.rs 89-95: the key of the sort is parsed as u32 and unwrapped; a slice
\* of fewer than two elements is sorted without computing a key.
SortPanics(files) ==
    Len(files) >= 2 /\ \E i \in 1..Len(files) : ~ParseOk(files[i].stem, U32Max)

\* Animation::load: the frame files sorted by their number; an animation
\* without frame files is an error.  A frame is named by the file it is
\* read from.
AnimationLoad(name, dir) ==
    LET files == FrameFiles(dir.entries) IN
    IF SortPanics(files) THEN Failure("panic")
    ELSE IF files = <<>> THEN Failure("InvalidObject")
    ELSE [ok |-> TRUE,
          value |-> [name |-> name,
                     metadata |-> [delay |-> dir.delay],
                     frames |-> SortByKey(files)]]

\* lua.load(script).exec(): the script's definitions overwrite the globals.
Exec(g, dir) ==
    [n \in GlobalNames |-> IF n \in dir.defs THEN dir.name ELSE g[n]]

\* StateEventHandlers::get_from: globals.get(..).ok() for the four names.
GetFrom(g) ==
    [init |-> g["Init"], update |-> g["Update"],
     key_down |-> g["Key_down"], key_up |-> g["Key_up"]]

\* Calling a global that is nil is a Lua error, which ends the script.
ExecFails(g, dir) == \E h \in dir.calls : g[h] = NoFn

\* State::load: runs the script, then requires the globals Init and Update.
StateLoad(g, dir) ==
    LET g2 == Exec(g, dir) IN
    IF ExecFails(g, dir)
    THEN [ok |-> FALSE, err |-> "Lua", globals |-> g]
    ELSE IF g2["Init"] = NoFn \/ g2["Update"] = NoFn
    THEN [ok |-> FALSE, err |-> "Lua", globals |-> g2]
    ELSE [ok |-> TRUE, globals |-> g2,
          value |-> [metadata |-> [animation |-> dir.animation,
                                   update_delay |-> dir.update_delay],
                     event_handlers |-> GetFrom(g2),
                     init_function |-> g2["Init"],
                     update_function |-> g2["Update"]]]

\* The loop over state_dirs in Pet::load; the first error ends it.
RECURSIVE LoadStates(_, _, _)
LoadStates(dirs, g, acc) ==
    IF dirs = <<>>
    THEN [ok |-> TRUE, globals |-> g, value |-> acc]
    ELSE LET r == StateLoad(g, Head(dirs)) IN
         IF ~r.ok THEN r
         ELSE LoadStates(Tail(dirs), r.globals,
                         [n \in DOMAIN acc \cup {Head(dirs).name} |->
                            IF n = Head(dirs).name THEN r.value ELSE acc[n]])

\* The empty HashMap.
EmptyMap == [n \in {} |-> NoValue]

\* No Pet value exists before Pet::load has returned one.
NoPet ==
    [metadata |-> [default_state |-> NoValue, global_tick_delay |-> 0],
     animations |-> EmptyMap, states |-> EmptyMap]

\* Pet::load: the animations first, then the states.  The first animation
\* that fails ends the load; the directories explored have at most one.
PetLoad(g, dir) ==
    IF \E n \in DOMAIN dir.anim : ~AnimationLoad(n, dir.anim[n]).ok
    THEN LET n == CHOOSE m \in DOMAIN dir.anim :
                      ~AnimationLoad(m, dir.anim[m]).ok
         IN [ok |-> FALSE, err |-> AnimationLoad(n, dir.anim[n]).err,
             globals |-> g]
    ELSE LET s == LoadStates(dir.state, g, EmptyMap) IN
         IF ~s.ok THEN s
         ELSE [ok |-> TRUE, globals |-> s.globals,
               value |-> [metadata |-> dir.meta,
                          animations |->
                            [n \in DOMAIN dir.anim |->
                               AnimationLoad(n, dir.anim[n]).value],
                          states |-> s.value]]

(***************************************************************************)
(* main.rs                                                                 *)
(***************************************************************************)
\* next_frame with the bound of line 153 off by one.
next_frame_off(frame, animation) ==
    IF frame < Len(animation.frames) THEN frame + 1 ELSE 0

\* next_frame
next_frame(frame, animation) ==
    IF frame < Len(animation.frames) - 1 THEN frame + 1 ELSE 0

\* The process before the first statement of main.
Boot ==
    /\ pc = "start"
    /\ raw_mode = FALSE
    /\ cursor_hidden = FALSE
    /\ handler_set = FALSE
    /\ running = TRUE
    /\ globals = [n \in GlobalNames |-> NoFn]
    /\ pet = NoPet
    /\ current_state = NoValue
    /\ current_anim = NoValue
    /\ current_frame = 0
    /\ clock = 0
    /\ now = 0
    /\ last_render = 0
    /\ last_update = 0
    /\ current_anim_closure = NoValue
    /\ caller = NoValue
    /\ got = NoValue
    /\ shown = NoFrame
    /\ key_event = "none"
    /\ err = NoValue

Init == fs \in PetDirs /\ Boot

\* main.rs 26-38: raw mode, the ctrlc handler, the hidden cursor.
Startup ==
    /\ pc = "start"
    /\ raw_mode' = TRUE
    /\ handler_set' = TRUE
    /\ cursor_hidden' = TRUE
    /\ pc' = "load"
    /\ UNCHANGED <<fs, key_event, running, globals, pet, current_state,
                   cursorVars, timeVars, current_anim_closure, caller, got,
                   shown, err>>

\* main.rs 42-51: Pet::load, whose error main returns at once.
LoadPet ==
    /\ pc = "load"
    /\ LET r == PetLoad(globals, fs) IN
         /\ globals' = r.globals
         /\ IF r.ok
            THEN /\ pet' = r.value
                 /\ pc' = "setup"
                 /\ err' = err
            ELSE IF r.err = "panic"
            THEN /\ pet' = pet
                 /\ pc' = "panic"
                 /\ err' = "panic: frame key"
            ELSE /\ pet' = pet
                 /\ pc' = "exit_err"
                 /\ err' = "load"
    /\ UNCHANGED <<fs, key_event, termVars, handler_set, running,
                   current_state, cursorVars, timeVars, current_anim_closure,
                   caller, got, shown>>

\* Setup with current_anim initialised to the name of the default state
\* instead of its animation.
Setup_state_name ==
    /\ pc = "setup"
    /\ IF pet.metadata.default_state \notin DOMAIN pet.states
       THEN /\ pc' = "panic"
            /\ err' = "panic: default state"
            /\ UNCHANGED <<globals, current_state, cursorVars, timeVars,
                           current_anim_closure>>
       ELSE /\ current_state' = pet.metadata.default_state
            /\ current_anim' = pet.metadata.default_state
            /\ current_frame' = 0
            /\ now' = clock
            /\ last_render' = clock
            /\ last_update' = clock
            /\ clock' = clock
            /\ current_anim_closure' = current_anim'
            /\ globals' = [n \in GlobalNames |->
                             IF n \in HostNames THEN "host" ELSE globals[n]]
            /\ pc' = "init"
            /\ err' = err
    /\ UNCHANGED <<fs, key_event, termVars, handler_set, running, pet, caller,
                   got, shown>>

\* main.rs 53-93: the loop's locals and the two host functions.  The two
\* unwraps of line 61 panic when the default state is not a loaded state.
Setup ==
    /\ pc = "setup"
    /\ IF pet.metadata.default_state \notin DOMAIN pet.states
       THEN /\ pc' = "panic"
            /\ err' = "panic: default state"
            /\ UNCHANGED <<globals, current_state, cursorVars, timeVars,
                           current_anim_closure>>
       ELSE /\ current_state' = pet.metadata.default_state
            /\ current_anim' =
                 pet.states[pet.metadata.default_state].metadata.animation
            /\ current_frame' = 0
            /\ now' = clock
            /\ last_render' = clock
            /\ last_update' = clock
            /\ clock' = clock
            /\ current_anim_closure' = current_anim'
            /\ globals' = [n \in GlobalNames |->
                             IF n \in HostNames THEN "host" ELSE globals[n]]
            /\ pc' = "init"
            /\ err' = err
    /\ UNCHANGED <<fs, key_event, termVars, handler_set, running, pet, caller,
                   got, shown>>

\* main.rs 95-99: the Init handler of the default state, if it has one.
CallInit ==
    /\ pc = "init"
    /\ IF pet.states[current_state].event_handlers.init # NoFn
       THEN /\ pc' = "call"
            /\ caller' = "init"
       ELSE /\ pc' = "loop"
            /\ caller' = caller
    /\ UNCHANGED <<fs, key_event, termVars, handler_set, running, globals, pet,
                   current_state, cursorVars, timeVars, current_anim_closure,
                   got, shown, err>>

\* main.rs 72-79: get_current_anim returns a clone of the String it owns.
GetCurrentAnim ==
    /\ pc = "call"
    /\ globals["get_current_anim"] = "host"
    /\ got' = current_anim_closure
    /\ UNCHANGED <<fs, key_event, pc, termVars, handler_set, running, globals,
                   pet, current_state, cursorVars, timeVars,
                   current_anim_closure, caller, shown, err>>

\* main.rs 84-93: set_current_anim writes both locals through its pointers.
\* The addresses of the two locals escape into the closure, so the loop
\* reloads them after every handler call and reads what was written here.
SetCurrentAnim(anim_name) ==
    /\ pc = "call"
    /\ globals["set_current_anim"] = "host"
    /\ current_anim' = anim_name
    /\ current_frame' = 0
    /\ UNCHANGED <<fs, key_event, pc, termVars, handler_set, running, globals,
                   pet, current_state, timeVars, current_anim_closure, caller,
                   got, shown, err>>

\* The handler returns Ok: main.rs 97-101 for Init, 125-131 for Update.
HandlerOk ==
    /\ pc = "call"
    /\ IF caller = "init"
       THEN /\ pc' = "loop"
            /\ last_update' = last_update
       ELSE /\ pc' = "poll"
            /\ last_update' = now
    /\ caller' = NoValue
    /\ UNCHANGED <<fs, key_event, termVars, handler_set, running, globals, pet,
                   current_state, cursorVars, clock, now, last_render,
                   current_anim_closure, got, shown, err>>

\* HandlerErr with the error of the Update handler recorded but not
\* returned: the loop goes on and the call counts as an update.
HandlerErr_swallow ==
    /\ pc = "call"
    /\ pc' = IF caller = "init" THEN "exit_err" ELSE "poll"
    /\ last_update' = IF caller = "init" THEN last_update ELSE now
    /\ err' = caller
    /\ UNCHANGED <<fs, key_event, termVars, handler_set, running, globals,
                   pet, current_state, cursorVars, clock, now, last_render,
                   current_anim_closure, caller, got, shown>>

\* The handler returns an error, which the ? of line 98 or 127 returns.
HandlerErr ==
    /\ pc = "call"
    /\ pc' = "exit_err"
    /\ err' = caller
    /\ UNCHANGED <<fs, key_event, termVars, handler_set, running, globals, pet,
                   current_state, cursorVars, timeVars, current_anim_closure,
                   caller, got, shown>>

\* main.rs 101-103: the loop condition, then the instant of this tick.
LoopCheck ==
    /\ pc = "loop"
    /\ IF running
       THEN /\ now' = clock
            /\ pc' = "render"
       ELSE /\ now' = now
            /\ pc' = "cleanup"
    /\ shown' = NoFrame
    /\ key_event' = "none"
    /\ UNCHANGED <<fs, termVars, handler_set, running, globals, pet,
                   current_state, cursorVars, clock, last_render, last_update,
                   current_anim_closure, caller, got, err>>

\* main.rs 114-119: the frame cursor after a frame of anim was printed.
AfterFrame(anim, state) ==
    LET revert == /\ current_frame = Len(anim.frames) - 1
                  /\ anim.name # state.metadata.animation
        frame == IF revert THEN 0 ELSE current_frame
    IN [current_anim |-> IF revert THEN state.metadata.animation
                         ELSE current_anim,
        current_frame |-> next_frame(frame, anim)]

\* main.rs 105: the delay the render is gated by.
GateDelay == pet.animations[current_state].metadata.delay

\* main.rs 105-121: the render step of a tick.
Render ==
    /\ pc = "render"
    /\ LET state == pet.states[current_state] IN
       IF current_state \notin DOMAIN pet.animations
       THEN /\ pc' = "panic"
            /\ err' = "panic: gate"
            /\ UNCHANGED <<termVars, cursorVars, last_render, shown>>
       ELSE IF now - last_render < GateDelay
       THEN /\ pc' = "update"
            /\ UNCHANGED <<termVars, cursorVars, last_render, shown, err>>
       ELSE IF current_anim \notin DOMAIN pet.animations
       THEN /\ pc' = "panic"
            /\ err' = "panic: animation"
            /\ UNCHANGED <<termVars, cursorVars, last_render, shown>>
       ELSE LET anim == pet.animations[current_anim] IN
            IF current_frame >= Len(anim.frames)
            THEN /\ pc' = "panic"
                 /\ err' = "panic: frame"
                 /\ raw_mode' = FALSE
                 /\ UNCHANGED <<cursor_hidden, cursorVars, last_render, shown>>
            ELSE /\ shown' = <<anim.name, current_frame,
                             anim.frames[current_frame + 1]>>
                 /\ current_anim' = AfterFrame(anim, state).current_anim
                 /\ current_frame' = AfterFrame(anim, state).current_frame
                 /\ last_render' = now
                 /\ pc' = "update"
                 /\ UNCHANGED <<termVars, err>>
    /\ UNCHANGED <<fs, key_event, handler_set, running, globals, pet,
                   current_state, clock, now, last_update,
                   current_anim_closure, caller, got>>

\* Update with the comparison of line 123 made strict.
Update_strict ==
    /\ pc = "update"
    /\ LET state == pet.states[current_state] IN
       IF /\ state.event_handlers.update # NoFn
          /\ now - last_update > state.metadata.update_delay
       THEN /\ pc' = "call"
            /\ caller' = "update"
       ELSE /\ pc' = "poll"
            /\ caller' = caller
    /\ UNCHANGED <<fs, key_event, termVars, handler_set, running, globals, pet,
                   current_state, cursorVars, timeVars, current_anim_closure,
                   got, shown, err>>

\* main.rs 123-124: whether this tick calls the Update handler.
Update ==
    /\ pc = "update"
    /\ LET state == pet.states[current_state] IN
       IF /\ state.event_handlers.update # NoFn
          /\ now - last_update >= state.metadata.update_delay
       THEN /\ pc' = "call"
            /\ caller' = "update"
       ELSE /\ pc' = "poll"
            /\ caller' = caller
    /\ UNCHANGED <<fs, key_event, termVars, handler_set, running, globals, pet,
                   current_state, cursorVars, timeVars, current_anim_closure,
                   got, shown, err>>

\* Poll with a key other than Esc passed to the state's Key_down handler.
Poll_dispatch(event) ==
    /\ pc = "poll"
    /\ IF event = "key"
          /\ pet.states[current_state].event_handlers.key_down # NoFn
       THEN pc' = "call" /\ caller' = "key_down"
       ELSE /\ pc' = IF event = "Esc" THEN "cleanup" ELSE "sleep"
            /\ caller' = caller
    /\ key_event' = event
    /\ UNCHANGED <<fs, termVars, handler_set, running, globals, pet,
                   current_state, cursorVars, timeVars, current_anim_closure,
                   got, shown, err>>

\* main.rs 133-140: a pending event, if any; Esc breaks out of the loop.
Poll(event) ==
    /\ pc = "poll"
    /\ pc' = IF event = "Esc" THEN "cleanup" ELSE "sleep"
    /\ key_event' = event
    /\ UNCHANGED <<fs, termVars, handler_set, running, globals, pet,
                   current_state, cursorVars, timeVars, current_anim_closure,
                   caller, got, shown, err>>

\* main.rs 142: sleep(delay) lasts at least global_tick_delay.
Sleep(d) ==
    /\ pc = "sleep"
    /\ d >= pet.metadata.global_tick_delay
    /\ clock + d <= MaxTime
    /\ clock' = clock + d
    /\ pc' = "loop"
    /\ UNCHANGED <<fs, key_event, termVars, handler_set, running, globals, pet,
                   current_state, cursorVars, now, last_render, last_update,
                   current_anim_closure, caller, got, shown, err>>

\* main.rs 145-149: the cursor is shown, raw mode is left, main returns Ok.
Cleanup ==
    /\ pc = "cleanup"
    /\ cursor_hidden' = FALSE
    /\ raw_mode' = FALSE
    /\ pc' = "exit_ok"
    /\ UNCHANGED <<fs, key_event, handler_set, running, globals, pet,
                   current_state, cursorVars, timeVars, current_anim_closure,
                   caller, got, shown, err>>

\* main.rs 31-34: the ctrlc handler, on its own thread while main runs.
Sigint ==
    /\ handler_set
    /\ pc \notin {"exit_ok", "exit_err", "panic"}
    /\ running' = FALSE
    /\ UNCHANGED <<fs, key_event, pc, termVars, handler_set, globals, pet,
                   current_state, cursorVars, timeVars, current_anim_closure,
                   caller, got, shown, err>>

Next ==
    \/ Startup
    \/ LoadPet
    \/ Setup
    \/ CallInit
    \/ GetCurrentAnim
    \/ \E anim_name \in ScriptArgs : SetCurrentAnim(anim_name)
    \/ HandlerOk
    \/ HandlerErr
    \/ LoopCheck
    \/ Render
    \/ Update
    \/ \E event \in {"none", "Esc", "key"} : Poll(event)
    \/ \E d \in 0..MaxSleep : Sleep(d)
    \/ Cleanup
    \/ Sigint

Spec == Init /\ [][Next]_vars

\* Animation::load on its own: the start of main up to the return of
\* Pet::load, over the animation directories of FrameDirs.
InitFrames == fs \in FrameDirs /\ Boot

NextFrames == Startup \/ LoadPet

SpecFrames == InitFrames /\ [][NextFrames]_vars

(***************************************************************************)
(* Properties.                                                             *)
(***************************************************************************)
\* The positions of main at which the loop's locals exist.
HasCursor ==
    pc \in {"init", "call", "loop", "render", "update", "poll", "sleep",
            "cleanup"}

Restored == ~raw_mode /\ ~cursor_hidden

\* The default animation of the active state.
DefaultAnim == pet.states[current_state].metadata.animation

FrameCount(name) == Len(pet.animations[name].frames)

\* This tick's render step printed the last frame of an animation that is
\* not the state's default.
OverrideCompleted ==
    /\ pc = "update"
    /\ shown # NoFrame
    /\ shown[1] # DefaultAnim
    /\ shown[2] = FrameCount(shown[1]) - 1

\* C1: while current_animation names an existing animation, current_frame
\* is below the number of frames of that animation.
C1_FrameInBounds ==
    (HasCursor /\ current_anim \in DOMAIN pet.animations)
        => current_frame < FrameCount(current_anim)

\* C2: current_animation is always a key of the animations map; a name the
\* mutator is given that is not an animation is not committed.
C2_AnimIsKey ==
    (HasCursor /\ DefaultAnim \in DOMAIN pet.animations)
        => current_anim \in DOMAIN pet.animations

\* C3: right after the render step that displays the last frame of an
\* override animation, current_animation is the state's default animation
\* and current_frame is 0.
C3_Reversion ==
    OverrideCompleted => (current_anim = DefaultAnim /\ current_frame = 0)

\* C4: a call of get_current_anim returns current_animation as it is at
\* the time of the call.
C4_AccessorCurrent ==
    [][(pc = "call" /\ got' # got) => got' = current_anim]_vars

\* C5: the render step never fails at its gate and prints a frame exactly
\* when the time since last_render is at least the frame delay of the
\* animation named by current_animation.
C5_RenderGate ==
    [][(/\ pc = "render"
        /\ current_anim \in DOMAIN pet.animations
        /\ current_frame < FrameCount(current_anim))
       => /\ pc' = "update"
          /\ (shown' # NoFrame) <=>
               (now - last_render
                  >= pet.animations[current_anim].metadata.delay)]_vars

\* C6: the update handler is called in a tick exactly when the active state
\* has one and the time since last_update is at least the state's update
\* interval, and when the call returns last_update is the tick's instant.
C6_UpdateCadence ==
    [][/\ (pc = "update" /\ pc' # pc) =>
            ((pc' = "call" /\ caller' = "update") <=>
               (/\ pet.states[current_state].event_handlers.update # NoFn
                /\ now - last_update >=
                     pet.states[current_state].metadata.update_delay))
       /\ (pc = "call" /\ caller = "update" /\ pc' = "poll") =>
            last_update' = now
       /\ last_update' # last_update =>
            (pc = "call" /\ caller = "update" /\ pc' = "poll")]_vars

\* C6 witness: for a state whose interval is longer than one tick, the
\* handler was called a second time and has returned.
C6_Fired ==
    /\ pc = "poll"
    /\ last_update = now
    /\ pet.states[current_state].metadata.update_delay > 1
    /\ now = 2 * pet.states[current_state].metadata.update_delay

\* C7: when the running flag was cleared while the loop was running, the
\* terminal is restored when main has returned.
C7_ShutdownRestores ==
    (pc \in {"exit_ok", "exit_err"} /\ ~running /\ err \notin {"load", "init"})
        => Restored

\* C8: when the init or the update handler failed, the terminal is restored
\* when main has returned the error.
C8_HandlerErrorRestores ==
    (pc = "exit_err" /\ err \in {"init", "update"}) => Restored

\* C9: when Pet::load failed, raw mode is not enabled and the cursor is not
\* hidden at the time main returns the error.
C9_LoadErrorBeforeTerminal ==
    (pc = "exit_err" /\ err = "load") => Restored

\* The handler of a loaded state that a global name becomes.
HandlerOf(state, h) ==
    CASE h = "Init" -> state.event_handlers.init
      [] h = "Update" -> state.event_handlers.update
      [] h = "Key_down" -> state.event_handlers.key_down
      [] h = "Key_up" -> state.event_handlers.key_up

\* C10: with every animation directory holding a frame, the load succeeds
\* whatever handler names the state scripts leave undefined, and a name a
\* state's script leaves undefined is an unset handler of that state.
C10_AbsentHandlers ==
    (/\ pc \notin {"start", "load"}
     /\ \A n \in DOMAIN fs.anim : FrameFiles(fs.anim[n].entries) # <<>>)
        => /\ err # "load"
           /\ \A i \in DOMAIN fs.state :
                \A h \in HandlerNames \ fs.state[i].defs :
                    HandlerOf(pet.states[fs.state[i].name], h) = NoFn

\* Every animation directory has a frame file, the default state is a state
\* directory and every state's animation is an animation directory.
ValidPet(dir) ==
    /\ \A n \in DOMAIN dir.anim : FrameFiles(dir.anim[n].entries) # <<>>
    /\ \E i \in DOMAIN dir.state : dir.state[i].name = dir.meta.default_state
    /\ \A i \in DOMAIN dir.state : dir.state[i].animation \in DOMAIN dir.anim

\* Every state.lua defines Init and Update and calls no host function when
\* it is executed.
ScriptsComplete(dir) ==
    \A i \in DOMAIN dir.state :
        /\ {"Init", "Update"} \subseteq dir.state[i].defs
        /\ dir.state[i].calls = {}

\* Pet::load has returned.
LoadReturned ==
    pc \notin {"start", "load", "panic"} \/ err = "panic: default state"

\* C11: for a pet whose scripts are complete, Pet::load succeeds exactly
\* when the pet is valid, and the lookup of the default state after a
\* successful load does not fail.
C11_LoadValidates ==
    (LoadReturned /\ ScriptsComplete(fs))
        => /\ (err # "load") <=> ValidPet(fs)
           /\ err # "panic: default state"

\* Every state.lua defines Init and Update.
DefinesBoth(dir) ==
    \A i \in DOMAIN dir.state : {"Init", "Update"} \subseteq dir.state[i].defs

\* C12: the host functions are registered before the state scripts are
\* executed: a valid pet whose state.lua calls get_current_anim or
\* set_current_anim when it is executed loads without error.
C12_ScriptsMayCallHost ==
    (LoadReturned /\ ValidPet(fs) /\ DefinesBoth(fs)) => err # "load"

\* C13: right after a render step that printed frame i of the state's
\* default animation, which has k frames, current_animation is unchanged
\* and current_frame is (i + 1) mod k; k such renders bring it back.
C13_FrameWrap ==
    (pc = "update" /\ shown # NoFrame /\ shown[1] = DefaultAnim)
        => /\ current_anim = DefaultAnim
           /\ current_frame = (shown[2] + 1) % FrameCount(DefaultAnim)

\* C13 witness: the last frame of a default animation of several frames was
\* printed and the frame cursor is back at 0.
C13_Wrapped ==
    /\ pc = "update"
    /\ shown # NoFrame
    /\ shown[1] = DefaultAnim
    /\ FrameCount(DefaultAnim) >= 2
    /\ shown[2] = FrameCount(DefaultAnim) - 1
    /\ current_frame = 0

\* C14: a render step reached before the frame delay of the current
\* animation has elapsed since last_render prints nothing and leaves
\* current_animation, current_frame and last_render as they are.
C14_NoEarlyRender ==
    [][(/\ pc = "render"
        /\ pc' # pc
        /\ current_anim \in DOMAIN pet.animations
        /\ now - last_render < pet.animations[current_anim].metadata.delay)
       => /\ shown' = NoFrame
          /\ UNCHANGED <<current_anim, current_frame, last_render>>]_vars

\* C15: the scenario pet loads and runs without error; during the first
\* 1600 ms the update handler is not called and the renders, 500 ms apart,
\* print the frames 0, 1 and 2 of blink.
C15_Scenario ==
    (fs = ScenarioDir /\ pc \notin {"start", "load"})
        => /\ err = NoValue
           /\ now <= 1600 => (last_update = 0 /\ caller # "update")
           /\ (shown # NoFrame /\ now <= 1600) =>
                (shown[1] = "blink" /\ shown[2] = (now \div 500) - 1)

\* A render step is reached with the gate of line 105 open and with
\* current_animation and the state's default animation both loaded.
RenderDue ==
    /\ pc = "render"
    /\ current_state \in DOMAIN pet.animations
    /\ now - last_render >= GateDelay
    /\ current_anim \in DOMAIN pet.animations
    /\ DefaultAnim \in DOMAIN pet.animations

\* C16: every due render prints the frame current_frame of
\* current_animation; for an override animation the frame cursor then moves
\* to the next frame, and after its last frame to the default animation, of
\* which the following due render prints a frame.
C16_Override ==
    [][(RenderDue /\ pc' # pc)
       => /\ shown' # NoFrame
          /\ shown'[1] = current_anim
          /\ shown'[2] = current_frame
          /\ current_anim # DefaultAnim =>
               IF current_frame = FrameCount(current_anim) - 1
               THEN current_anim' = DefaultAnim
               ELSE /\ current_anim' = current_anim
                    /\ current_frame' = current_frame + 1]_vars

\* C17: when the directory of blink has a frame file, Animation::load
\* returns exactly its frame files, in ascending order of their numbers.
C17_FramesSorted ==
    (pc \notin {"start", "load"}
     /\ FrameFiles(fs.anim["blink"].entries) # <<>>)
        => /\ pc = "setup"
           /\ LET files == FrameFiles(fs.anim["blink"].entries)
                  frames == pet.animations["blink"].frames
              IN /\ Len(frames) = Len(files)
                 /\ {frames[i] : i \in 1..Len(frames)}
                      = {files[i] : i \in 1..Len(files)}
                 /\ \A i, j \in 1..Len(frames) :
                      i < j => ~NumLess(ParseValue(frames[j].stem),
                                        ParseValue(frames[i].stem))

\* C18: the step in which the Update handler fails ends main with the
\* error and leaves last_update as it was, and nothing happens after it:
\* no render, no handler call, no further iteration.
C18_UpdateFailureFatal ==
    [][/\ (err' = "update" /\ err # "update") =>
            (pc' = "exit_err" /\ last_update' = last_update)
       /\ err = "update" => UNCHANGED vars]_vars

\* C18 witness: the Update handler failed in a tick later than the last
\* update, after a frame was printed.
C18_Failed ==
    /\ pc = "exit_err"
    /\ err = "update"
    /\ last_update < now
    /\ last_render > 0

\* C19: the Init handler is entered only from the position before the loop,
\* with current_state the default state, current_animation its animation,
\* current_frame 0, both timers at the start instant and nothing rendered;
\* the loop is entered only by the return of that call (or directly when
\* the state has no Init handler), and no Init call starts inside the loop.
C19_InitOrder ==
    [][/\ (caller' = "init" /\ caller # "init") =>
            /\ pc = "init"
            /\ current_state' = pet.metadata.default_state
            /\ current_anim' =
                 pet.states[pet.metadata.default_state].metadata.animation
            /\ current_frame' = 0
            /\ last_render' = now'
            /\ last_update' = now'
            /\ shown' = NoFrame
       /\ (pc' = "init" /\ pc # "init") => pc = "setup"
       /\ (pc' = "loop" /\ pc \notin {"loop", "sleep"}) =>
            \/ pc = "call" /\ caller = "init"
            \/ /\ pc = "init"
               /\ pet.states[current_state].event_handlers.init = NoFn
       /\ pc \in {"loop", "render", "update", "poll", "sleep"} =>
            caller' # "init"]_vars

\* C19 witness: the Init handler of the default state is running.
C19_InitRunning ==
    /\ pc = "call"
    /\ caller = "init"
    /\ current_anim = DefaultAnim
    /\ current_anim \in DOMAIN pet.animations

\* C20: while the loop's locals exist current_state is the pet's default
\* state, no Key_down or Key_up handler is ever called, and the poll step
\* changes neither current_state, current_animation nor current_frame.
C20_StateFixed ==
    [][/\ HasCursor' => current_state' = pet'.metadata.default_state
       /\ caller' \notin {"key_down", "key_up"}
       /\ (pc = "poll" /\ pc' # pc) =>
            UNCHANGED <<current_state, current_anim, current_frame>>]_vars

\* C20 witness: in a tick that printed a frame, a key other than Esc was
\* read for a state whose script defines Key_down and Key_up.
C20_KeyRead ==
    /\ pc = "sleep"
    /\ key_event = "key"
    /\ shown # NoFrame
    /\ pet.states[current_state].event_handlers.key_down # NoFn
    /\ pet.states[current_state].event_handlers.key_up # NoFn
====
